---------------------------- MODULE Spec2Model ----------------------------
(***************************************************************************)
(* Model of msgpackrpc.session.Session (and the sweep attachment of        *)
(* msgpackrpc.client.Client): message-id generation, the two pending-call  *)
(* registries, response correlation, the timeout sweep, connection-failure *)
(* broadcast and close.                                                    *)
(*                                                                         *)
(* The Future, the Loop and the transport are collaborators whose code is  *)
(* not part of the modelled files; they are modelled at their interface.   *)
(***************************************************************************)
EXTENDS Integers, Sequences, FiniteSets, TLC

(* ------------------------------ bounds -------------------------------- *)

\* The generator's wrap bound, 1 << 30 in the source, scaled down.
WrapBound == 2

\* Number of calls (send_request / call_with_callback) issued in one run.
MaxCalls == 4

\* Calls issued in the specification of the loop, notify and on_timeout.
MaxLoopCalls == 2

\* Notifies whose send completion may be outstanding at once.
MaxNotify == 2

(* ------------------------------ values -------------------------------- *)

NoneVal == "None"

\* No msgid: the operation takes none.
NoId == 0 - 1

REQUEST == "REQUEST"

NOTIFY == "NOTIFY"

TimedOut == "Request timed out"

\* Ids a response may carry: every id the generator can produce.
MsgIds == 0..WrapBound

\* The error field of a response: absent, or a remote error.
Errors == {NoneVal, "remote error"}

\* The result field of a response.
Results == {"r1"}

\* Reasons the transport reports for a failed connection.
Reasons == {"connect failed"}

\* Timeouts a Session is constructed with: none, or the Client's default.
Timeouts == {0, 10}

VARIABLES
    counter,            \* _NoSyncIDGenerator: the value the next next() yields
    request_table,      \* Session._request_table: msgid -> future (handle)
    request_callbacks,  \* Session._request_callbacks: msgid -> callback (handle)
    transport,          \* Session._transport: "open" or NoneVal
    timeout,            \* Session._timeout
    tornado,            \* Session._tornado
    loop_running,       \* the Loop: TRUE after start(), FALSE after stop()
    futures,            \* every Future created so far, by handle
    callbacks,          \* every callback registered so far, by handle
    notify_pending,     \* send-completion callbacks of notify not yet invoked
    issued,             \* history: the ids next() has yielded, in order
    last                \* history: the operation just executed

vars == <<counter, request_table, request_callbacks, transport, timeout, tornado,
          loop_running, futures, callbacks, notify_pending, issued, last>>

(* --------------------------- pure helpers ----------------------------- *)

\* The empty dict.
EmptyTable == [k \in {} |-> 0]

\* Mutation of Pop: the whole table is reset instead of one entry removed.
Pop_clears(table, m) == EmptyTable

\* Mutation of Pop: the entry is read (table[m]) but not removed.
Pop_keeps(table, m) == table

\* dict.pop(key): the mapping without key m.
Pop(table, m) == [k \in (DOMAIN table) \ {m} |-> table[k]]

\* dict[key] = value (an existing entry under the key is replaced).
Put(table, m, v) == [k \in (DOMAIN table) \cup {m} |-> IF k = m THEN v ELSE table[k]]

\* The values of a dict.
Values(table) == {table[k] : k \in DOMAIN table}

\* Mutation of the generator: the increment is lost, every yield is the same.
NoSyncIDGenerator_stuck(c) == IF c > WrapBound THEN 0 ELSE c

\* Mutation of the generator: the wrap test is >= instead of >.
NoSyncIDGenerator_wraps_early(c) == IF c + 1 >= WrapBound THEN 0 ELSE c + 1

\* _NoSyncIDGenerator: the counter after one yield.
NoSyncIDGenerator(c) == IF c + 1 > WrapBound THEN 0 ELSE c + 1

\* Future(loop, timeout): a fresh, unset Deferred Result.  sets counts the
\* deliveries attempted on it.
Future == [set_flag |-> FALSE, error |-> NoneVal, result |-> NoneVal, sets |-> 0]

\* Future.set(error, result): single assignment; a later attempt is ignored by
\* the Future but counted, so that a double delivery is observable.
FutureSet(f, error, result) ==
    IF f.set_flag
    THEN [f EXCEPT !.sets = @ + 1]
    ELSE [f EXCEPT !.set_flag = TRUE, !.error = error, !.result = result,
                   !.sets = @ + 1]

\* Future.set_result(result)
set_result(f, result) == FutureSet(f, NoneVal, result)

\* Future.set_error(error)
set_error(f, error) == FutureSet(f, error, NoneVal)

\* A callback registered by call_with_callback, not yet invoked.
Callback == [calls |-> 0, arg |-> NoneVal]

\* callback(arg)
Invoke(cb, arg) == [calls |-> cb.calls + 1, arg |-> arg]

\* Mutation of DeliverCallback: the error object is handed to the callback.
DeliverCallback_passes_error(cb, error, result) ==
    IF error # NoneVal THEN Invoke(cb, error) ELSE Invoke(cb, result)

\* on_response, callback branch: the callback gets the result, or None when
\* the response carries an error.
DeliverCallback(cb, error, result) ==
    IF error # NoneVal THEN Invoke(cb, NoneVal) ELSE Invoke(cb, result)

\* Mutation of DeliverFuture: the error test is lost, every reply resolves.
DeliverFuture_ignores_error(f, error, result) == set_result(f, result)

\* on_response, future branch: fail the Future with the error when there is
\* one, resolve it with the result otherwise.
DeliverFuture(f, error, result) ==
    IF error # NoneVal THEN set_error(f, error) ELSE set_result(f, result)

\* Mutation of PopAll: the expired ids are looked up but not removed.
PopAll_keeps(table, ms) == table

\* The sweep's removal loop: pop every collected msgid.
PopAll(table, ms) == [k \in (DOMAIN table) \ ms |-> table[k]]

\* Mutation of FailAll: the iteration stops after the first entry.
FailAll_first_only(futs, table, reason) ==
    [h \in DOMAIN futs |->
        IF h \in Values(table) /\ (\A k \in Values(table) : h <= k)
        THEN set_error(futs[h], reason) ELSE futs[h]]

\* for msgid, future in iteritems(table): future.set_error(reason)
FailAll(futs, table, reason) ==
    [h \in DOMAIN futs |->
        IF h \in Values(table) THEN set_error(futs[h], reason) ELSE futs[h]]

\* Mutation of stop_loop: the tornado guard is lost.
stop_loop_unguarded(running) == FALSE

\* Mutation of start_loop: the tornado guard is lost.
start_loop_unguarded(running) == TRUE

\* Session.stop_loop, and the guarded self._loop.stop() of step_timeout
stop_loop(running) == IF ~tornado THEN FALSE ELSE running

\* Session.start_loop, and the guarded self._loop.start() of step_timeout
start_loop(running) == IF ~tornado THEN TRUE ELSE running

\* The handle the next created Future or callback gets.
NewHandle == Cardinality(DOMAIN futures) + Cardinality(DOMAIN callbacks) + 1

\* History record of one operation: its name, the msgid it was given or
\* assigned (NoId when none), the message it handed to transport.send_message
\* (NoneVal when none), the exception it raised (NoneVal when it returned) and,
\* for the operations that drive the loop around other statements, the
\* statements executed in order (trace).
Event(op, m, msg, raised) ==
    [op |-> op, msgid |-> m, sent |-> msg, raised |-> raised, trace |-> <<>>]

\* One executed statement of a handler and the loop's state after it.
Stmt(ev, running) == [ev |-> ev, loop |-> running]

\* n times the sweep's removal of one expired id, the loop being in state
\* running: pop the Future, then fail it.
Removals(n, running) ==
    [i \in 1..(2 * n) |->
        Stmt(IF i % 2 = 1 THEN "pop" ELSE "set_error", running)]

\* Mutation of SweepStatements: the loop is stopped after the removals.
SweepStatements_stops_late(n, running) ==
    IF n = 0 THEN <<>>
    ELSE Removals(n, running)
         \o <<Stmt("stop", stop_loop(running))>>
         \o <<Stmt("start", start_loop(stop_loop(running)))>>

\* Mutation of SweepStatements: the early return of an empty scan is lost.
SweepStatements_no_early_return(n, running) ==
    <<Stmt("stop", stop_loop(running))>>
    \o Removals(n, stop_loop(running))
    \o <<Stmt("start", start_loop(stop_loop(running)))>>

\* Session.step_timeout with n expired ids, statement by statement: nothing
\* when none expired; otherwise the guarded loop stop, the removals, the
\* guarded loop start.
SweepStatements(n, running) ==
    IF n = 0 THEN <<>>
    ELSE <<Stmt("stop", stop_loop(running))>>
         \o Removals(n, stop_loop(running))
         \o <<Stmt("start", start_loop(stop_loop(running)))>>

\* Mutation of NotifyStatements: the loop is started before the send.
NotifyStatements_starts_first(running) ==
    IF transport = NoneVal THEN <<>>
    ELSE <<Stmt("start", start_loop(running)),
           Stmt("send_message", start_loop(running))>>

\* Session.notify, statement by statement: send_message, then start_loop;
\* with the transport torn down the send raises and nothing follows.
NotifyStatements(running) ==
    IF transport = NoneVal THEN <<>>
    ELSE <<Stmt("send_message", running), Stmt("start", start_loop(running))>>

\* The loop's state after the statements (unchanged when there are none).
LoopAfter(stmts, running) ==
    IF stmts = <<>> THEN running ELSE stmts[Len(stmts)].loop

\* self._transport.send_message(msg): with the transport torn down (None) the
\* attribute lookup raises and nothing is sent.
SendMessage(op, m, msg) ==
    IF transport = NoneVal
    THEN Event(op, m, NoneVal, "AttributeError")
    ELSE Event(op, m, msg, NoneVal)

(* ------------------------------- Init --------------------------------- *)

\* Session.__init__ (Client.__init__): nothing registered, generator at 0.
\* The constructor neither starts nor stops the loop it is given or creates:
\* the loop may be running or not, whatever the tornado flag is.
Init ==
    /\ counter = 0
    /\ request_table = EmptyTable
    /\ request_callbacks = EmptyTable
    /\ transport = "open"
    /\ timeout \in Timeouts
    /\ tornado \in BOOLEAN
    /\ loop_running \in BOOLEAN
    /\ futures = EmptyTable
    /\ callbacks = EmptyTable
    /\ notify_pending = 0
    /\ issued = <<>>
    /\ last = Event("init", NoId, NoneVal, NoneVal)

(* ------------------------------ actions ------------------------------- *)

\* Session.send_request (call_async, and the registration half of call)
SendRequest ==
    /\ NewHandle <= MaxCalls
    /\ LET msgid == counter
           h == NewHandle
       IN /\ counter' = NoSyncIDGenerator(counter)
          /\ issued' = Append(issued, msgid)
          /\ futures' = Put(futures, h, Future)
          /\ request_table' = Put(request_table, msgid, h)
          /\ last' = SendMessage("send_request", msgid, <<REQUEST, msgid>>)
    /\ UNCHANGED <<request_callbacks, transport, timeout, tornado, loop_running,
                   callbacks, notify_pending>>

\* Session.call_with_callback
CallWithCallback ==
    /\ NewHandle <= MaxCalls
    /\ LET msgid == counter
           h == NewHandle
       IN /\ counter' = NoSyncIDGenerator(counter)
          /\ issued' = Append(issued, msgid)
          /\ callbacks' = Put(callbacks, h, Callback)
          /\ request_callbacks' = Put(request_callbacks, msgid, h)
          /\ last' = SendMessage("call_with_callback", msgid, <<REQUEST, msgid>>)
    /\ UNCHANGED <<request_table, transport, timeout, tornado, loop_running,
                   futures, notify_pending>>

\* Mutation of on_response: the early return for an unknown msgid is lost, so
\* control falls through both branches to the trailing stop_loop().
OnResponse_no_early_return(msgid, error, result) ==
    /\ IF msgid \in DOMAIN request_table
       THEN LET h == request_table[msgid]
            IN /\ request_table' = Pop(request_table, msgid)
               /\ futures' = [futures EXCEPT ![h] =
                                 DeliverFuture(@, error, result)]
               /\ UNCHANGED <<request_callbacks, callbacks>>
       ELSE IF msgid \in DOMAIN request_callbacks
       THEN LET h == request_callbacks[msgid]
            IN /\ request_callbacks' = Pop(request_callbacks, msgid)
               /\ callbacks' = [callbacks EXCEPT ![h] =
                                   DeliverCallback(@, error, result)]
               /\ UNCHANGED <<request_table, futures>>
       ELSE UNCHANGED <<request_table, futures, request_callbacks, callbacks>>
    /\ loop_running' = stop_loop(loop_running)
    /\ last' = Event("on_response", msgid, NoneVal, NoneVal)
    /\ UNCHANGED <<counter, transport, timeout, tornado, notify_pending, issued>>

\* Session.on_response(msgid, error, result)
OnResponse(msgid, error, result) ==
    IF msgid \notin DOMAIN request_table /\ msgid \notin DOMAIN request_callbacks
    THEN /\ last' = Event("on_response", msgid, NoneVal, NoneVal)
         /\ UNCHANGED <<counter, request_table, request_callbacks, transport,
                        timeout, tornado, loop_running, futures, callbacks,
                        notify_pending, issued>>
    ELSE /\ IF msgid \in DOMAIN request_table
            THEN LET h == request_table[msgid]
                 IN /\ request_table' = Pop(request_table, msgid)
                    /\ futures' = [futures EXCEPT ![h] =
                                      DeliverFuture(@, error, result)]
                    /\ UNCHANGED <<request_callbacks, callbacks>>
            ELSE LET h == request_callbacks[msgid]
                 IN /\ request_callbacks' = Pop(request_callbacks, msgid)
                    /\ callbacks' = [callbacks EXCEPT ![h] =
                                        DeliverCallback(@, error, result)]
                    /\ UNCHANGED <<request_table, futures>>
         /\ loop_running' = stop_loop(loop_running)
         /\ last' = Event("on_response", msgid, NoneVal, NoneVal)
         /\ UNCHANGED <<counter, transport, timeout, tornado, notify_pending,
                        issued>>

\* Mutation of StepTimeout: an expiring sweep also drops the callback
\* registrations.
StepTimeout_drops_callbacks(timeouts) ==
    /\ timeouts \subseteq DOMAIN request_table
    /\ IF timeouts = {}
       THEN UNCHANGED <<request_table, futures, request_callbacks>>
       ELSE /\ request_table' = PopAll(request_table, timeouts)
            /\ request_callbacks' = EmptyTable
            /\ futures' = [h \in DOMAIN futures |->
                             IF \E m \in timeouts : request_table[m] = h
                             THEN set_error(futures[h], TimedOut)
                             ELSE futures[h]]
    /\ LET stmts == SweepStatements(Cardinality(timeouts), loop_running)
       IN /\ loop_running' = LoopAfter(stmts, loop_running)
          /\ last' = [Event("step_timeout", NoId, NoneVal, NoneVal)
                        EXCEPT !.trace = stmts]
    /\ UNCHANGED <<counter, callbacks, transport, timeout, tornado,
                   notify_pending, issued>>

\* Session.step_timeout, invoked by the periodic callback Client.__init__
\* attaches when the timeout is not zero, or called directly.  timeouts is
\* the list the scan collects: the msgids whose Future.step_timeout() reports
\* expiry.
StepTimeout(timeouts) ==
    /\ timeouts \subseteq DOMAIN request_table
    /\ IF timeouts = {}
       THEN UNCHANGED <<request_table, futures>>
       ELSE /\ request_table' = PopAll(request_table, timeouts)
            /\ futures' = [h \in DOMAIN futures |->
                             IF \E m \in timeouts : request_table[m] = h
                             THEN set_error(futures[h], TimedOut)
                             ELSE futures[h]]
    /\ LET stmts == SweepStatements(Cardinality(timeouts), loop_running)
       IN /\ loop_running' = LoopAfter(stmts, loop_running)
          /\ last' = [Event("step_timeout", NoId, NoneVal, NoneVal)
                        EXCEPT !.trace = stmts]
    /\ UNCHANGED <<counter, request_callbacks, transport, timeout, tornado,
                   callbacks, notify_pending, issued>>

\* Mutation of close: the future-keyed registry is not cleared.
close_keeps_futures ==
    /\ transport' = NoneVal
    /\ request_table' = request_table
    /\ request_callbacks' = EmptyTable

\* Mutation of close: the callback-keyed registry is not cleared.
close_keeps_callbacks ==
    /\ transport' = NoneVal
    /\ request_table' = EmptyTable
    /\ request_callbacks' = request_callbacks

\* The body of Session.close: tear the transport down, clear both registries.
close ==
    /\ transport' = NoneVal
    /\ request_table' = EmptyTable
    /\ request_callbacks' = EmptyTable

\* Session.close, called by the application
Close ==
    /\ close
    /\ last' = Event("close", NoId, NoneVal, NoneVal)
    /\ UNCHANGED <<counter, timeout, tornado, loop_running, futures, callbacks,
                   notify_pending, issued>>

\* Session.on_connect_failed(reason)
OnConnectFailed(reason) ==
    /\ futures' = FailAll(futures, request_table, reason)
    \* self._request_table = {}; self.close()
    /\ close
    \* self.stop_loop()
    /\ loop_running' = stop_loop(loop_running)
    /\ last' = Event("on_connect_failed", NoId, NoneVal, NoneVal)
    /\ UNCHANGED <<counter, timeout, tornado, callbacks, notify_pending, issued>>

\* Mutation of OnTimeout: the method pops the msgid it was given and fails
\* the Future with the timeout error.
OnTimeout_pops_msgid(msgid) ==
    /\ IF msgid \in DOMAIN request_table
       THEN /\ request_table' = Pop(request_table, msgid)
            /\ futures' = [futures EXCEPT ![request_table[msgid]] =
                              set_error(@, TimedOut)]
            /\ last' = Event("on_timeout", msgid, NoneVal, NoneVal)
       ELSE /\ UNCHANGED <<request_table, futures>>
            /\ last' = Event("on_timeout", msgid, NoneVal, "KeyError")
    /\ UNCHANGED <<counter, request_callbacks, transport, timeout, tornado,
                   loop_running, callbacks, notify_pending, issued>>

\* Session.on_timeout(msgid): the name `timeout` is not bound in the method,
\* so the lookup raises before the registry is touched.
OnTimeout(msgid) ==
    /\ last' = Event("on_timeout", msgid, NoneVal, "NameError")
    /\ UNCHANGED <<counter, request_table, request_callbacks, transport, timeout,
                   tornado, loop_running, futures, callbacks, notify_pending,
                   issued>>

\* Session.notify: hand the message to the transport, then start the loop.
\* The method has no precondition; the number of outstanding send completions
\* is capped at MaxNotify.
Notify ==
    /\ notify_pending < MaxNotify
    /\ LET stmts == NotifyStatements(loop_running)
       IN /\ last' = [SendMessage("notify", NoId, <<NOTIFY>>)
                        EXCEPT !.trace = stmts]
          /\ loop_running' = LoopAfter(stmts, loop_running)
    /\ notify_pending' = IF transport = NoneVal THEN notify_pending
                                                ELSE notify_pending + 1
    /\ UNCHANGED <<counter, request_table, request_callbacks, transport, timeout,
                   tornado, futures, callbacks, issued>>

\* The callback notify passes to send_message: the transport signals that the
\* message was sent, and the callback stops the loop.
NotifySent ==
    /\ notify_pending > 0
    /\ notify_pending' = notify_pending - 1
    /\ loop_running' = stop_loop(loop_running)
    /\ last' = Event("notify_sent", NoId, NoneVal, NoneVal)
    /\ UNCHANGED <<counter, request_table, request_callbacks, transport, timeout,
                   tornado, futures, callbacks, issued>>

\* Session.start_loop, called directly
StartLoop ==
    /\ loop_running' = start_loop(loop_running)
    /\ last' = Event("start_loop", NoId, NoneVal, NoneVal)
    /\ UNCHANGED <<counter, request_table, request_callbacks, transport, timeout,
                   tornado, futures, callbacks, notify_pending, issued>>

\* Session.stop_loop, called directly
StopLoop ==
    /\ loop_running' = stop_loop(loop_running)
    /\ last' = Event("stop_loop", NoId, NoneVal, NoneVal)
    /\ UNCHANGED <<counter, request_table, request_callbacks, transport, timeout,
                   tornado, futures, callbacks, notify_pending, issued>>

\* The sets of msgids whose Futures can report expiry to one scan of the
\* sweep: any registered ones under a positive timeout, none under timeout 0,
\* which disables the per-call deadline.
Expirable == IF timeout = 0 THEN {{}} ELSE SUBSET MsgIds

\* The correlation core: calls, replies, the sweep, failure and close.
Next ==
    \/ SendRequest
    \/ CallWithCallback
    \/ \E m \in MsgIds, e \in Errors, r \in Results : OnResponse(m, e, r)
    \/ \E timeouts \in Expirable : StepTimeout(timeouts)
    \/ Close
    \/ \E reason \in Reasons : OnConnectFailed(reason)

Spec == Init /\ [][Next]_vars

\* Every operation of the Session.
NextAll ==
    \/ Next
    \/ \E m \in MsgIds : OnTimeout(m)
    \/ Notify
    \/ NotifySent
    \/ StartLoop
    \/ StopLoop

SpecAll == Init /\ [][NextAll]_vars

\* Every operation of the Session, over at most MaxLoopCalls calls: the
\* specification of the claims about the loop, notify and on_timeout.
NextLoop ==
    \/ (NewHandle <= MaxLoopCalls /\ SendRequest)
    \/ (NewHandle <= MaxLoopCalls /\ CallWithCallback)
    \/ \E m \in MsgIds, e \in Errors, r \in Results : OnResponse(m, e, r)
    \/ \E timeouts \in Expirable : StepTimeout(timeouts)
    \/ Close
    \/ \E reason \in Reasons : OnConnectFailed(reason)
    \/ \E m \in MsgIds : OnTimeout(m)
    \/ Notify
    \/ NotifySent
    \/ StartLoop
    \/ StopLoop

\* The transport signals the completion of a send it accepted.
SpecLoop == Init /\ [][NextLoop]_vars /\ WF_vars(NotifySent)

\* The periodic sweep at a tick where the Future registered under m reports
\* expiry: the deadline of a Future that stays registered elapses after
\* finitely many ticks.
Expire(m) == \E timeouts \in Expirable : m \in timeouts /\ StepTimeout(timeouts)

\* The session of a Client that is never closed by the application.
NextLive ==
    \/ SendRequest
    \/ CallWithCallback
    \/ \E m \in MsgIds, e \in Errors, r \in Results : OnResponse(m, e, r)
    \/ \E timeouts \in Expirable : StepTimeout(timeouts)
    \/ \E reason \in Reasons : OnConnectFailed(reason)

\* The loop keeps firing the periodic callback: a msgid that stays in the
\* future-keyed registry is eventually collected by a sweep.
SpecLive ==
    /\ Init
    /\ [][NextLive]_vars
    /\ \A m \in MsgIds : WF_vars(Expire(m))

(* ------------------------------ claims -------------------------------- *)

\* A Future set exactly once, with this error and this result.
SetOnce(error, result) ==
    [set_flag |-> TRUE, error |-> error, result |-> result, sets |-> 1]

\* The msgid the call with handle h was registered under: handles are given
\* in the order of the calls, as the ids are.
IdOf(h) == issued[h]

\* C1: a response processed while its msgid is in the future-keyed registry
\* delivers exactly once to the Future registered under it (the result when
\* the error is absent, the error otherwise) and removes the msgid.
C1_ResponseDeliveredOnce ==
    [][(last'.op = "on_response" /\ last'.msgid \in DOMAIN request_table) =>
        LET m == last'.msgid
            h == request_table[m]
        IN \A e \in Errors, r \in Results :
              OnResponse(m, e, r) =>
                  /\ futures[h] = Future
                  /\ futures'[h] = IF e = NoneVal THEN SetOnce(NoneVal, r)
                                                  ELSE SetOnce(e, NoneVal)
                  /\ m \notin DOMAIN request_table']_vars

\* C1 witness: a reply has just resolved one Future, and another Future was
\* failed by a reply carrying a remote error.
C1_Witness ==
    /\ last.op = "on_response"
    /\ \E h \in DOMAIN futures :
          /\ IdOf(h) = last.msgid
          /\ futures[h] = SetOnce(NoneVal, "r1")
          /\ last.msgid \notin DOMAIN request_table
    /\ \E h \in DOMAIN futures : futures[h] = SetOnce("remote error", NoneVal)

\* C2: a Future the sweep collects as expired is failed with the timeout error
\* exactly once and removed; afterwards no step changes it, and a response
\* carrying its msgid delivers nothing to it (nothing at all when the msgid is
\* in neither registry).
C2_TimeoutThenLateResponse ==
    [][/\ last'.op = "step_timeout" =>
            \A ts \in SUBSET (DOMAIN request_table) :
                StepTimeout(ts) =>
                    \A m \in ts :
                        /\ futures[request_table[m]] = Future
                        /\ futures'[request_table[m]] = SetOnce(TimedOut, NoneVal)
                        /\ m \notin DOMAIN request_table'
       /\ \A h \in DOMAIN futures :
            futures[h].error = TimedOut =>
                /\ futures'[h] = futures[h]
                /\ h \notin Values(request_table')
                /\ (/\ last'.op = "on_response"
                    /\ last'.msgid = IdOf(h)
                    /\ IdOf(h) \notin DOMAIN request_table
                    /\ IdOf(h) \notin DOMAIN request_callbacks)
                   => UNCHANGED <<futures, callbacks>>]_vars

\* C2 witness: a response for the msgid of a timed-out Future has just been
\* processed, and the Future still holds the timeout error, set once.
C2_Witness ==
    /\ last.op = "on_response"
    /\ \E h \in DOMAIN futures :
          /\ IdOf(h) = last.msgid
          /\ futures[h] = SetOnce(TimedOut, NoneVal)
          /\ \A k \in DOMAIN futures : IdOf(k) = last.msgid => k = h
          /\ \A k \in DOMAIN callbacks : IdOf(k) # last.msgid

\* C3: no Future is set, and no callback invoked, more than once.
C3_AtMostOneDelivery ==
    /\ \A h \in DOMAIN futures : futures[h].sets <= 1
    /\ \A h \in DOMAIN callbacks : callbacks[h].calls <= 1

\* C3 witness: every delivery route has been taken: a result and a timeout
\* and a connection failure on Futures, and an invoked callback.
C3_Witness ==
    /\ \E h \in DOMAIN futures : futures[h] = SetOnce(NoneVal, "r1")
    /\ \E h \in DOMAIN futures : futures[h] = SetOnce(TimedOut, NoneVal)
    /\ \E h \in DOMAIN futures : futures[h] = SetOnce("connect failed", NoneVal)
    /\ \E h \in DOMAIN callbacks : callbacks[h].calls = 1

\* C4: on_connect_failed(reason) fails every Future of the future-keyed
\* registry with that reason, touches no other Future, and leaves the
\* registry empty.
C4_ConnectFailedBroadcast ==
    [][last'.op = "on_connect_failed" =>
        \A reason \in Reasons :
            OnConnectFailed(reason) =>
                /\ \A h \in Values(request_table) :
                      /\ futures[h] = Future
                      /\ futures'[h] = SetOnce(reason, NoneVal)
                /\ \A h \in (DOMAIN futures) \ Values(request_table) :
                      futures'[h] = futures[h]
                /\ request_table' = EmptyTable]_vars

\* C4 witness: a connection failure has just failed three Futures at once.
C4_Witness ==
    /\ last.op = "on_connect_failed"
    /\ request_table = EmptyTable
    /\ Cardinality({h \in DOMAIN futures :
                      futures[h] = SetOnce("connect failed", NoneVal)}) = 3

\* C5 as stated: on_connect_failed leaves the callback-keyed registry
\* untouched and invokes no callback.
C5_CallbacksUntouched ==
    [][last'.op = "on_connect_failed" =>
        /\ request_callbacks' = request_callbacks
        /\ callbacks' = callbacks]_vars

\* C5 amended: on_connect_failed invokes no callback, and (through close) it
\* drops every callback registration: the callback-keyed registry is empty
\* afterwards.
C5_CallbacksDroppedUninvoked ==
    [][last'.op = "on_connect_failed" =>
        /\ callbacks' = callbacks
        /\ request_callbacks' = EmptyTable]_vars

\* C5 witness: a connection failure has just failed a Future while an earlier
\* callback call had had no reply: the callback is uninvoked and unregistered.
C5_Witness ==
    /\ last.op = "on_connect_failed"
    /\ DOMAIN callbacks = {1}
    /\ DOMAIN futures = {2}
    /\ callbacks[1] = Callback
    /\ futures[2] = SetOnce("connect failed", NoneVal)
    /\ request_callbacks = EmptyTable

\* C6: the ids of any WrapBound or fewer consecutive calls are pairwise
\* distinct, wherever in the generator's cycle the calls start.
C6_ConsecutiveIdsDistinct ==
    \A i, j \in 1..Len(issued) :
        (i < j /\ j - i < WrapBound) => issued[i] # issued[j]

\* C6 witness: WrapBound calls issued one after the other, starting past the
\* generator's origin and crossing the wrap, all still registered and pending.
C6_Witness ==
    /\ Len(issued) = WrapBound + 2
    /\ issued[Len(issued)] = 0
    /\ last.op \in {"send_request", "call_with_callback"}
    /\ \A h \in 3..(WrapBound + 2) :
          \/ /\ h \in DOMAIN futures
             /\ IdOf(h) \in DOMAIN request_table
             /\ request_table[IdOf(h)] = h
             /\ futures[h] = Future
          \/ /\ h \in DOMAIN callbacks
             /\ IdOf(h) \in DOMAIN request_callbacks
             /\ request_callbacks[IdOf(h)] = h
             /\ callbacks[h] = Callback

\* The number of calls outstanding: the records of the two registries.
Outstanding ==
    Cardinality(DOMAIN request_table) + Cardinality(DOMAIN request_callbacks)

\* C7 as stated: with at most WrapBound calls outstanding, no msgid is a key of
\* both registries, and a new call (that keeps the number outstanding within
\* WrapBound) never gets a msgid that a registry still holds a record under.
C7_OutstandingIdsUnique ==
    [][/\ Outstanding <= WrapBound =>
            DOMAIN request_table \cap DOMAIN request_callbacks = {}
       /\ (Outstanding < WrapBound /\ (SendRequest \/ CallWithCallback)) =>
            /\ counter \notin DOMAIN request_table
            /\ counter \notin DOMAIN request_callbacks]_vars

\* C8: the generator yields 0, 1, ..., WrapBound and then 0 again, one step at
\* a time: the i-th id is (i - 1) modulo (WrapBound + 1), and no id lies
\* outside 0..WrapBound.
C8_GeneratorWraps ==
    /\ counter \in 0..WrapBound
    /\ counter = Len(issued) % (WrapBound + 1)
    /\ \A i \in 1..Len(issued) : issued[i] = (i - 1) % (WrapBound + 1)

\* C8 witness: WrapBound + 1 ids have been yielded, the last one WrapBound
\* itself, and the next id is 0.
C8_Witness ==
    /\ Len(issued) = WrapBound + 1
    /\ issued[WrapBound + 1] = WrapBound
    /\ counter = 0

\* C9: a response whose msgid is in neither registry changes nothing (the
\* registries, the generator, the Futures, the callbacks, the transport and
\* the loop) and raises nothing.
C9_UnknownIdDiscarded ==
    [][(/\ last'.op = "on_response"
        /\ last'.msgid \notin DOMAIN request_table
        /\ last'.msgid \notin DOMAIN request_callbacks) =>
            /\ UNCHANGED <<counter, request_table, request_callbacks, futures,
                           callbacks, transport, loop_running, issued>>
            /\ last'.raised = NoneVal]_vars

\* C9 witness: with both registries holding a record and the loop running, a
\* response has just been processed whose msgid only a call that had already
\* timed out ever had.
C9_Witness ==
    /\ last.op = "on_response"
    /\ last.raised = NoneVal
    /\ \A i \in 1..Len(issued) :
          issued[i] = last.msgid =>
              i \in DOMAIN futures /\ futures[i] = SetOnce(TimedOut, NoneVal)
    /\ request_table # EmptyTable
    /\ request_callbacks # EmptyTable
    /\ loop_running /\ ~tornado

\* C10: a response for msgid m touches only the record registered under m:
\* the records under every other msgid stay in their registry, and no other
\* Future is set and no other callback invoked.
C10_OnlyTheAddressedCall ==
    [][last'.op = "on_response" =>
        LET m == last'.msgid
        IN /\ \A k \in (DOMAIN request_table) \ {m} :
                 k \in DOMAIN request_table' /\ request_table'[k] = request_table[k]
           /\ \A k \in (DOMAIN request_callbacks) \ {m} :
                 /\ k \in DOMAIN request_callbacks'
                 /\ request_callbacks'[k] = request_callbacks[k]
           /\ \A h \in DOMAIN futures :
                 (m \in DOMAIN request_table /\ request_table[m] = h)
                 \/ futures'[h] = futures[h]
           /\ \A h \in DOMAIN callbacks :
                 (m \in DOMAIN request_callbacks /\ request_callbacks[m] = h)
                 \/ callbacks'[h] = callbacks[h]]_vars

\* C10 witness: with ids 0 and 1 pending, a response for 1 has just resolved
\* the second Future; the first is still pending under 0.
C10_Witness ==
    /\ last.op = "on_response"
    /\ last.msgid = 1
    /\ DOMAIN futures = {1, 2}
    /\ futures[2] = SetOnce(NoneVal, "r1")
    /\ futures[1] = Future
    /\ DOMAIN request_table = {0}
    /\ request_table[0] = 1

\* An invoked callback: called exactly once, with this argument.
CalledOnce(arg) == [calls |-> 1, arg |-> arg]

\* C11: a response processed while its msgid is in the callback registry and
\* not in the future-keyed one removes the record and invokes the registered
\* callback exactly once, with the result when the error is absent and with
\* None when it is present: the error object never reaches the callback.
C11_CallbackDeliveredOnce ==
    [][(/\ last'.op = "on_response"
        /\ last'.msgid \in DOMAIN request_callbacks
        /\ last'.msgid \notin DOMAIN request_table) =>
        LET m == last'.msgid
            h == request_callbacks[m]
        IN \A e \in Errors, r \in Results :
              OnResponse(m, e, r) =>
                  /\ callbacks[h] = Callback
                  /\ callbacks'[h] = IF e = NoneVal THEN CalledOnce(r)
                                                    ELSE CalledOnce(NoneVal)
                  /\ callbacks'[h].arg \notin Errors \ {NoneVal}
                  /\ m \notin DOMAIN request_callbacks'
                  /\ \A g \in (DOMAIN callbacks) \ {h} :
                        callbacks'[g] = callbacks[g]]_vars

\* C11 witness: a response has just invoked one callback with the result, and
\* another callback was invoked with None by a response carrying an error.
C11_Witness ==
    /\ last.op = "on_response"
    /\ \E h \in DOMAIN callbacks :
          /\ IdOf(h) = last.msgid
          /\ callbacks[h] = CalledOnce("r1")
          /\ last.msgid \notin DOMAIN request_callbacks
    /\ \E h \in DOMAIN callbacks : callbacks[h] = CalledOnce(NoneVal)

\* C12: the sweep never removes or invokes a callback-keyed record: the
\* callback registry and every callback are the same after a sweep as before.
C12_SweepLeavesCallbacks ==
    [][last'.op = "step_timeout" =>
          UNCHANGED <<request_callbacks, callbacks>>]_vars

\* C12 witness: a sweep has just failed an expired Future while a callback
\* call is still registered and not invoked.
C12_Witness ==
    /\ last.op = "step_timeout"
    /\ \E h \in DOMAIN futures : futures[h] = SetOnce(TimedOut, NoneVal)
    /\ \E m \in DOMAIN request_callbacks :
          callbacks[request_callbacks[m]] = Callback

\* C13: close leaves the transport torn down and both registries empty, and
\* a Future that is pending and no longer registered (as every Future pending
\* at close is) stays pending and unregistered at every later step: no
\* response, sweep or connection failure resolves or fails it.
C13_PendingAtCloseStaysPending ==
    [][/\ last'.op = "close" =>
            /\ transport' = NoneVal
            /\ request_table' = EmptyTable
            /\ request_callbacks' = EmptyTable
       /\ \A h \in DOMAIN futures :
            (futures[h] = Future /\ h \notin Values(request_table)) =>
                /\ futures'[h] = Future
                /\ h \notin Values(request_table')]_vars

\* C13 witness: after close, a response carrying the msgid of a Future that
\* was pending at close has been processed, and the Future is still pending.
C13_Witness ==
    /\ last.op = "on_response"
    /\ transport = NoneVal
    /\ request_table = EmptyTable
    /\ \E h \in DOMAIN futures :
          /\ IdOf(h) = last.msgid
          /\ futures[h] = Future
          /\ \A g \in (DOMAIN futures) \ {h} : IdOf(g) # last.msgid

\* C14: with a positive timeout, the sweep firing fairly and no close, every
\* Future registered by call / call_async is eventually set (result, remote
\* error, connect-failure reason or timeout error), and the future-keyed
\* registry eventually returns to empty.
C14_EveryCallCompletes ==
    /\ \A h \in 1..MaxCalls :
          [](timeout # 0 /\ h \in DOMAIN futures =>
                <>(h \in DOMAIN futures /\ futures[h].set_flag))
    /\ [](timeout # 0 => <>(request_table = EmptyTable))

\* C15: with the tornado flag off, a sweep that collects at least one expired
\* msgid stops the loop first, then removes and fails every expired Future
\* while the loop is marked stopped, then starts the loop: the loop is marked
\* running when the sweep returns.
C15_SweepStopsRemovesStarts ==
    [][(/\ last'.op = "step_timeout"
        /\ request_table' # request_table
        /\ ~tornado) =>
        LET stmts == last'.trace
            expired == (DOMAIN request_table) \ (DOMAIN request_table')
            n == Len(stmts)
        IN /\ n = 2 * Cardinality(expired) + 2
           /\ stmts[1] = Stmt("stop", FALSE)
           /\ \A i \in 2..(n - 1) :
                 /\ stmts[i].ev = IF i % 2 = 0 THEN "pop" ELSE "set_error"
                 /\ stmts[i].loop = FALSE
           /\ stmts[n] = Stmt("start", TRUE)
           /\ loop_running'
           /\ \A m \in expired :
                 futures'[request_table[m]] = SetOnce(TimedOut, NoneVal)]_vars

\* C15 witness: a sweep has just removed two expired msgids between its loop
\* stop and its loop start, leaving the loop marked running and another call
\* registered.
C15_Witness ==
    /\ last.op = "step_timeout"
    /\ ~tornado
    /\ Len(last.trace) = 6
    /\ loop_running
    /\ request_table # EmptyTable
    /\ Cardinality({h \in DOMAIN futures :
                       futures[h] = SetOnce(TimedOut, NoneVal)}) >= 2

\* C16: a sweep in which no Future reports expiry has no side effect: both
\* registries, the id generator, the loop's state, the transport, every
\* Future and every callback are unchanged and no statement drives the loop.
C16_EmptySweepNoEffect ==
    [][(last'.op = "step_timeout" /\ StepTimeout({})) =>
          /\ UNCHANGED <<counter, request_table, request_callbacks, transport,
                         loop_running, futures, callbacks, issued>>
          /\ last'.trace = <<>>
          /\ last'.raised = NoneVal]_vars

\* C16 witness: a sweep has just found nothing expired although calls of both
\* kinds are registered and pending, the loop being stopped with the tornado
\* flag off.
C16_Witness ==
    /\ last.op = "step_timeout"
    /\ last.trace = <<>>
    /\ ~tornado
    /\ ~loop_running
    /\ \E m \in DOMAIN request_table : futures[request_table[m]] = Future
    /\ request_callbacks # EmptyTable

\* A notify may still be inside start_loop(): its send-completion callback is
\* outstanding and the Session's own loop is marked running.
NotifyInLoop == ~tornado /\ notify_pending > 0 /\ loop_running

\* C17: notify consumes no id and creates no registry record; it hands the
\* message to the transport before it starts the loop (and raises, starting
\* nothing, when the transport is torn down); the send-completion callback
\* stops the loop; and when the transport signals send completion, a notify
\* inside the loop eventually gets out of it.
C17_NotifyFrameAndLoop ==
    /\ [][/\ last'.op = "notify" =>
               /\ UNCHANGED <<counter, issued, request_table, request_callbacks,
                              futures, callbacks, transport>>
               /\ last'.msgid = NoId
               /\ IF transport = NoneVal
                  THEN /\ last'.raised = "AttributeError"
                       /\ last'.trace = <<>>
                       /\ UNCHANGED <<loop_running, notify_pending>>
                  ELSE /\ last'.raised = NoneVal
                       /\ last'.sent = <<NOTIFY>>
                       /\ last'.trace =
                             <<Stmt("send_message", loop_running),
                               Stmt("start", IF tornado THEN loop_running
                                                        ELSE TRUE)>>
                       /\ ~tornado => loop_running'
                       /\ notify_pending' = notify_pending + 1
          /\ last'.op = "notify_sent" =>
               /\ notify_pending > 0
               /\ notify_pending' = notify_pending - 1
               /\ ~tornado => ~loop_running'
               /\ UNCHANGED <<counter, issued, request_table, request_callbacks,
                              futures, callbacks, transport>>]_vars
    /\ (NotifyInLoop ~> ~NotifyInLoop)

\* C17 witness: the send-completion callback of one of two outstanding
\* notifies has just stopped the loop, with calls still registered and no id
\* consumed by the notifies.
C17_Witness ==
    /\ last.op = "notify_sent"
    /\ ~tornado
    /\ ~loop_running
    /\ notify_pending = 1
    /\ request_table # EmptyTable
    /\ request_callbacks # EmptyTable
    /\ Len(issued) = 2

\* C18: with the tornado flag set no operation starts or stops the loop,
\* neither at its end nor at any statement in between, and the effect of
\* every operation on the registries, the Futures and the callbacks is the
\* one the handler has whatever the flag is.
C18_TornadoLeavesLoopAlone ==
    [][/\ tornado =>
            /\ loop_running' = loop_running
            /\ \A i \in DOMAIN last'.trace :
                  last'.trace[i].loop = loop_running
       /\ (last'.op = "on_response" /\ last'.msgid \in DOMAIN request_table) =>
            /\ request_table' = Pop(request_table, last'.msgid)
            /\ \E e \in Errors, r \in Results :
                  futures' = [futures EXCEPT ![request_table[last'.msgid]] =
                                 DeliverFuture(@, e, r)]
            /\ UNCHANGED <<request_callbacks, callbacks>>
       /\ (/\ last'.op = "on_response"
           /\ last'.msgid \notin DOMAIN request_table
           /\ last'.msgid \in DOMAIN request_callbacks) =>
            /\ request_callbacks' = Pop(request_callbacks, last'.msgid)
            /\ \E e \in Errors, r \in Results :
                  callbacks' =
                      [callbacks EXCEPT ![request_callbacks[last'.msgid]] =
                          DeliverCallback(@, e, r)]
            /\ UNCHANGED <<request_table, futures>>
       /\ last'.op = "on_connect_failed" =>
            /\ request_table' = EmptyTable
            /\ request_callbacks' = EmptyTable
            /\ \E reason \in Reasons :
                  futures' = FailAll(futures, request_table, reason)
            /\ UNCHANGED callbacks
       /\ last'.op = "step_timeout" =>
            /\ \E ts \in SUBSET (DOMAIN request_table) :
                  /\ request_table' = PopAll(request_table, ts)
                  /\ futures' = [h \in DOMAIN futures |->
                                   IF \E m \in ts : request_table[m] = h
                                   THEN set_error(futures[h], TimedOut)
                                   ELSE futures[h]]
            /\ UNCHANGED <<request_callbacks, callbacks>>
       /\ last'.op \in {"notify", "notify_sent", "start_loop", "stop_loop"} =>
            UNCHANGED <<request_table, request_callbacks, futures,
                        callbacks>>]_vars

\* C18 witness: with the tornado flag set and the external loop not started,
\* a notify was handed to the transport and a sweep has then failed an
\* expired Future: neither the start_loop of notify nor the guarded loop
\* start of the sweep has started the loop.
C18_Witness ==
    /\ tornado
    /\ last.op = "step_timeout"
    /\ Len(last.trace) = 4
    /\ notify_pending > 0
    /\ ~loop_running
    /\ \E h \in DOMAIN futures : futures[h] = SetOnce(TimedOut, NoneVal)

\* C19: a call, call_async or call_with_callback made once the transport is
\* torn down (after close or on_connect_failed) raises and changes nothing:
\* no id is consumed, no record is added, and both registries are empty in
\* every state in which the transport is torn down.
C19_CallAfterCloseNoEffect ==
    [][/\ (/\ transport = NoneVal
           /\ last'.op \in {"send_request", "call_with_callback"}) =>
             /\ last'.raised # NoneVal
             /\ UNCHANGED <<counter, issued, request_table, request_callbacks,
                            futures, callbacks>>
       /\ transport' = NoneVal =>
             /\ request_table' = EmptyTable
             /\ request_callbacks' = EmptyTable]_vars

\* C20: a Future is failed with the timeout error only by the sweep, and
\* on_timeout, for any msgid and in any state, raises before it removes
\* anything: registries, Futures, callbacks, generator, transport and loop
\* are unchanged.
C20_OnTimeoutRaisesFirst ==
    [][/\ last'.op = "on_timeout" =>
            /\ last'.raised = "NameError"
            /\ UNCHANGED <<counter, issued, request_table, request_callbacks,
                           futures, callbacks, transport, loop_running,
                           notify_pending>>
       /\ \A h \in DOMAIN futures :
            (futures[h].error # TimedOut /\ futures'[h].error = TimedOut) =>
                last'.op = "step_timeout"]_vars

\* C20 witness: on_timeout has just been invoked with the msgid of a pending
\* registered Future, which is still pending and registered, while another
\* Future carries the timeout error the sweep gave it.
C20_Witness ==
    /\ last.op = "on_timeout"
    /\ last.msgid \in DOMAIN request_table
    /\ futures[request_table[last.msgid]] = Future
    /\ \E h \in DOMAIN futures : futures[h] = SetOnce(TimedOut, NoneVal)

=============================================================================
